---- MODULE Spec2Model ----
(***************************************************************************)
(* Seita weather forecast API: the forecast selector (get_forecasts), the  *)
(* daily condition evaluator (evaluate_tomorrow) and the two HTTP handlers *)
(* of app/main.py that call them, over a weather dataset loaded once.      *)
(*                                                                         *)
(* Time is counted in seconds since 2020-11-02T00:00:00Z; every timestamp  *)
(* is a UTC instant.  Event values are counted in hundredths (8.97 is 897, *)
(* the sentinel -1.0 is -100).  Every event_value and every                *)
(* belief_horizon_in_sec of a row is present (not null).                   *)
(***************************************************************************)
EXTENDS Integers, Sequences, FiniteSets

VARIABLES weather_df, op, now, then, result, status, core_calls

vars == <<weather_df, op, now, then, result, status, core_calls>>

(***************************************************************************)
(* Bounds and input domains                                                *)
(***************************************************************************)
MaxRows == 2

SecondsPerDay == 86400

Step == SecondsPerDay \div 2

\* instants of the requests (now, then)
Instants == {0, Step, 2 * Step}

\* instants of the events in the file
EventInstants == {Step, 2 * Step}

Horizons == {0, Step}

EventValues == {500, 5000}

(***************************************************************************)
(* load_weather_data                                                       *)
(***************************************************************************)
NaT == -1

\* A cell of the event_start column as read from the file: text that parses
\* as a timestamp, or text that does not.
ParsableCells == [valid : {TRUE}, t : EventInstants]

MalformedCell == [valid |-> FALSE, t |-> 0]

\* rows of the file: every combination for the three sensors of interest, a row
\* with a malformed timestamp for each of them, and rows of another sensor
RawRows ==
    [event_start : ParsableCells, belief_horizon_in_sec : Horizons,
     event_value : EventValues, sensor : {"temperature", "irradiance", "wind speed"}]
    \cup
    [event_start : {MalformedCell}, belief_horizon_in_sec : {0},
     event_value : {5000}, sensor : {"temperature", "irradiance", "wind speed"}]
    \cup
    [event_start : ParsableCells, belief_horizon_in_sec : {0},
     event_value : {5000}, sensor : {"humidity"}]

\* pd.to_datetime(..., errors="coerce") on one cell
to_datetime(cell) == IF cell.valid THEN cell.t ELSE NaT

load_weather_data(file) ==
    [i \in DOMAIN file |->
        [event_start |-> to_datetime(file[i].event_start),
         belief_horizon_in_sec |-> file[i].belief_horizon_in_sec,
         event_value |-> file[i].event_value,
         sensor |-> file[i].sensor]]

RECURSIVE SeqsUpTo(_, _)
SeqsUpTo(S, n) ==
    IF n = 0 THEN {<<>>}
    ELSE LET shorter == SeqsUpTo(S, n - 1)
         IN  shorter \cup {Append(q, x) : q \in {s \in shorter : Len(s) = n - 1}, x \in S}

Files == SeqsUpTo(RawRows, MaxRows)

(***************************************************************************)
(* Comparisons of a timestamp column against a timestamp: a comparison     *)
(* with NaT is False.                                                      *)
(***************************************************************************)
\* faulty variant: NaT compared as if it were an instant
TsLeNaTAsInstant(ts, t) == ts <= t

TsLe(ts, t) == ts # NaT /\ ts <= t

\* a timestamp column minus a timedelta column: NaT stays NaT
TsSub(ts, seconds) == IF ts = NaT THEN NaT ELSE ts - seconds

(***************************************************************************)
(* get_forecasts                                                           *)
(***************************************************************************)
sensors == {"temperature", "irradiance", "wind speed"}

default_forecast ==
    [k \in {"temperature", "irradiance", "wind_speed"} |-> -100]

\* order of the sensor labels as strings
SensorRank(s) ==
    CASE s = "humidity" -> 0
      [] s = "irradiance" -> 1
      [] s = "temperature" -> 2
      [] s = "wind speed" -> 3

\* faulty variant: ascending=[True, False, False]
SortsBeforeHorizonDescending(a, b) ==
    \/ SensorRank(a.sensor) < SensorRank(b.sensor)
    \/ /\ a.sensor = b.sensor
       /\ \/ a.event_start > b.event_start
          \/ /\ a.event_start = b.event_start
             /\ a.belief_horizon_in_sec > b.belief_horizon_in_sec

\* by=["sensor", "event_start", "belief_horizon_in_sec"],
\* ascending=[True, False, True]
SortsBefore(a, b) ==
    \/ SensorRank(a.sensor) < SensorRank(b.sensor)
    \/ /\ a.sensor = b.sensor
       /\ \/ a.event_start > b.event_start
          \/ /\ a.event_start = b.event_start
             /\ a.belief_horizon_in_sec < b.belief_horizon_in_sec

\* r placed in an already sorted frame, after the rows it does not precede
InsertRow(sorted, r) ==
    LET before == {i \in DOMAIN sorted : SortsBefore(r, sorted[i])}
        pos == IF before = {} THEN Len(sorted) + 1
               ELSE CHOOSE i \in before : \A j \in before : i <= j
    IN  SubSeq(sorted, 1, pos - 1) \o <<r>> \o SubSeq(sorted, pos, Len(sorted))

\* DataFrame.sort_values on several columns (a stable sort)
RECURSIVE sort_values(_)
sort_values(df) ==
    IF df = <<>> THEN <<>>
    ELSE InsertRow(sort_values(SubSeq(df, 1, Len(df) - 1)), df[Len(df)])

\* .groupby("sensor").first()["event_value"].to_dict()
groupby_first(df) ==
    [s \in {df[i].sensor : i \in DOMAIN df} |->
        LET rows == {i \in DOMAIN df : df[i].sensor = s}
            i0 == CHOOSE i \in rows : \A j \in rows : i <= j
        IN  df[i0].event_value]

\* key.replace(" ", "_")
Replace(key) == IF key = "wind speed" THEN "wind_speed" ELSE key

\* faulty variant: the defaults are dropped
MergeValuesOnly(a, b) == b

\* {**a, **b}
Merge(a, b) ==
    [k \in (DOMAIN a) \cup (DOMAIN b) |-> IF k \in DOMAIN b THEN b[k] ELSE a[k]]

InRange(r, t) == TsLe(r.event_start, t) /\ r.sensor \in sensors

\* faulty variant: the filter on the knowledge time is missing
VisibleRegardlessOfNow(r, n) == TRUE

Visible(r, n) == TsLe(TsSub(r.event_start, r.belief_horizon_in_sec), n)

get_forecasts(df, n, t) ==
    LET InRangeT(r) == InRange(r, t)
        VisibleN(r) == Visible(r, n)
        filtered_data == SelectSeq(SelectSeq(df, InRangeT), VisibleN)
        most_recent_forecasts == groupby_first(sort_values(filtered_data))
        forecast_values ==
            [k \in {Replace(s) : s \in DOMAIN most_recent_forecasts} |->
                most_recent_forecasts[
                    CHOOSE s \in DOMAIN most_recent_forecasts : Replace(s) = k]]
        forecasts == Merge(default_forecast, forecast_values)
    IN  <<forecasts>>

(***************************************************************************)
(* evaluate_tomorrow                                                       *)
(***************************************************************************)
WARM_THRESHOLD == 800

SUNNY_THRESHOLD == 5000

WINDY_THRESHOLD == 600

\* .date() of a timestamp
Date(t) == t \div SecondsPerDay

OnDate(r, d) == r.event_start # NaT /\ Date(r.event_start) = d

\* faulty variant: all(...) in place of any(...)
AllAtLeast(frame, threshold) ==
    IF frame = <<>> THEN FALSE
    ELSE \A i \in DOMAIN frame : frame[i].event_value >= threshold

\* faulty variant: only the first row is compared
FirstAtLeast(frame, threshold) ==
    IF frame = <<>> THEN FALSE
    ELSE frame[1].event_value >= threshold

\* any(frame["event_value"] >= threshold) if not frame.empty else False
AnyAtLeast(frame, threshold) ==
    IF frame = <<>> THEN FALSE
    ELSE \E i \in DOMAIN frame : frame[i].event_value >= threshold

\* the three conditions over tomorrow's rows
Conditions(tomorrow_forecasts) ==
    LET IsTemperature(r) == r.sensor = "temperature"
        IsIrradiance(r) == r.sensor = "irradiance"
        IsWindSpeed(r) == r.sensor = "wind speed"
        temperature_forecasts == SelectSeq(tomorrow_forecasts, IsTemperature)
        irradiance_forecasts == SelectSeq(tomorrow_forecasts, IsIrradiance)
        wind_speed_forecasts == SelectSeq(tomorrow_forecasts, IsWindSpeed)
    IN  [warm |-> AnyAtLeast(temperature_forecasts, WARM_THRESHOLD),
         sunny |-> AnyAtLeast(irradiance_forecasts, SUNNY_THRESHOLD),
         windy |-> AnyAtLeast(wind_speed_forecasts, WINDY_THRESHOLD)]

\* faulty variant: tomorrow's rows are also filtered by knowledge time
evaluate_tomorrow_known_by_now(df, n) ==
    IF df = <<>> THEN [warm |-> FALSE, sunny |-> FALSE, windy |-> FALSE]
    ELSE
        LET tomorrow_date == Date(n + SecondsPerDay)
            IsTomorrow(r) == OnDate(r, tomorrow_date)
            VisibleN(r) == Visible(r, n)
        IN  Conditions(SelectSeq(SelectSeq(df, IsTomorrow), VisibleN))

evaluate_tomorrow(df, n) ==
    IF df = <<>> THEN [warm |-> FALSE, sunny |-> FALSE, windy |-> FALSE]
    ELSE
        LET tomorrow_date == Date(n + SecondsPerDay)
            IsTomorrow(r) == OnDate(r, tomorrow_date)
        IN  Conditions(SelectSeq(df, IsTomorrow))

(***************************************************************************)
(* Reference data: the frame and the instants of tests/test_api.py         *)
(***************************************************************************)
\* 2020-11-02T18:00Z
tomorrow_now == 64800

\* 2020-11-03T18:00Z
test_then == 151200

\* 2020-11-03T16:00Z, the knowledge time of the irradiance row of 18:00
before_beliefs == test_then - 7200

\* 2020-11-03T19:00Z
test_now == 154800

Row(es, h, v, s) ==
    [event_start |-> es, belief_horizon_in_sec |-> h, event_value |-> v, sensor |-> s]

\* TestWeatherAPI.setUp
TestData ==
    << Row(151200, 3600, 897, "temperature"),
       Row(151200, 7200, 0, "irradiance"),
       Row(151200, 3600, 617, "wind speed"),
       Row(198000, 7200, 455, "irradiance"),
       Row(201600, 10800, 8502, "irradiance"),
       Row(205200, 3600, 694, "wind speed") >>

\* df[df["sensor"] != "wind speed"]
DataMissingWindSpeed ==
    LET NotWindSpeed(r) == r.sensor # "wind speed" IN SelectSeq(TestData, NotWindSpeed)

\* df.loc[df["sensor"] == "irradiance", "event_value"] = 40.0
DataNotSunny ==
    [i \in DOMAIN TestData |->
        IF TestData[i].sensor = "irradiance"
        THEN [TestData[i] EXCEPT !.event_value = 4000]
        ELSE TestData[i]]

\* the rows of 2020-11-04 one day earlier: irradiance 4.55 and 85.02 and
\* wind speed 6.94 on 2020-11-03, no temperature on that day
DataTomorrowScenario ==
    << Row(198000 - SecondsPerDay, 7200, 455, "irradiance"),
       Row(201600 - SecondsPerDay, 10800, 8502, "irradiance"),
       Row(205200 - SecondsPerDay, 3600, 694, "wind speed") >>

ReferenceData ==
    {TestData, DataMissingWindSpeed, DataNotSunny, DataTomorrowScenario, <<>>}

ReferenceInstants == {tomorrow_now, before_beliefs, test_then, test_now}

(***************************************************************************)
(* The process: the dataset is loaded once, then requests are served one   *)
(* at a time.  now, then, result, status and core_calls belong to the      *)
(* request being served; core_calls counts the evaluations of the core     *)
(* function made for it.                                                   *)
(***************************************************************************)
NoResult == <<>>

Idle ==
    /\ op = "idle"
    /\ now = 0
    /\ then = 0
    /\ result = NoResult
    /\ status = 0
    /\ core_calls = 0

\* weather_df = load_weather_data()
Init ==
    /\ weather_df \in {load_weather_data(f) : f \in Files}
    /\ Idle

InitReference ==
    /\ weather_df \in ReferenceData
    /\ Idle

\* a direct call of the core function, as the tests make it
CallGetForecasts(n, t) ==
    /\ op = "idle"
    /\ op' = "get_forecasts"
    /\ now' = n
    /\ then' = t
    /\ result' = get_forecasts(weather_df, n, t)
    /\ status' = 0
    /\ core_calls' = 1
    /\ UNCHANGED weather_df

CallEvaluateTomorrow(n) ==
    /\ op = "idle"
    /\ op' = "evaluate_tomorrow"
    /\ now' = n
    /\ then' = 0
    /\ result' = evaluate_tomorrow(weather_df, n)
    /\ status' = 0
    /\ core_calls' = 1
    /\ UNCHANGED weather_df

\* faulty variant: the validation compares the wrong way round
get_forecasts_endpoint_swapped(n, t) ==
    /\ op = "idle"
    /\ op' = "get_forecasts_endpoint"
    /\ now' = n
    /\ then' = t
    /\ IF n > t
       THEN /\ status' = 400
            /\ result' = NoResult
            /\ core_calls' = 0
       ELSE LET forecasts == get_forecasts(weather_df, n, t)
            IN  /\ core_calls' = 1
                /\ IF forecasts = <<>>
                   THEN status' = 404 /\ result' = NoResult
                   ELSE status' = 200 /\ result' = forecasts
    /\ UNCHANGED weather_df

\* faulty variant: no validation of the time ordering
get_forecasts_endpoint_unvalidated(n, t) ==
    /\ op = "idle"
    /\ op' = "get_forecasts_endpoint"
    /\ now' = n
    /\ then' = t
    /\ LET forecasts == get_forecasts(weather_df, n, t)
       IN  /\ core_calls' = 1
           /\ IF forecasts = <<>>
              THEN status' = 404 /\ result' = NoResult
              ELSE status' = 200 /\ result' = forecasts
    /\ UNCHANGED weather_df

\* GET /forecasts
get_forecasts_endpoint(n, t) ==
    /\ op = "idle"
    /\ op' = "get_forecasts_endpoint"
    /\ now' = n
    /\ then' = t
    /\ IF n < t
       THEN /\ status' = 400
            /\ result' = NoResult
            /\ core_calls' = 0
       ELSE LET forecasts == get_forecasts(weather_df, n, t)
            IN  /\ core_calls' = 1
                /\ IF forecasts = <<>>
                   THEN status' = 404 /\ result' = NoResult
                   ELSE status' = 200 /\ result' = forecasts
    /\ UNCHANGED weather_df

\* GET /tomorrow
get_tomorrow(n) ==
    /\ op = "idle"
    /\ op' = "get_tomorrow"
    /\ now' = n
    /\ then' = 0
    /\ result' = evaluate_tomorrow(weather_df, n)
    /\ status' = 200
    /\ core_calls' = 1
    /\ UNCHANGED weather_df

\* the call has returned; the next one can be served
Finish ==
    /\ op # "idle"
    /\ op' = "idle"
    /\ now' = 0
    /\ then' = 0
    /\ result' = NoResult
    /\ status' = 0
    /\ core_calls' = 0
    /\ UNCHANGED weather_df

Serve(instants) ==
    \/ \E n \in instants, t \in instants : CallGetForecasts(n, t)
    \/ \E n \in instants : CallEvaluateTomorrow(n)
    \/ \E n \in instants, t \in instants : get_forecasts_endpoint(n, t)
    \/ \E n \in instants : get_tomorrow(n)
    \/ Finish

Next == Serve(Instants)

NextReference == Serve(ReferenceInstants)

Spec == Init /\ [][Next]_vars

SpecReference == InitReference /\ [][NextReference]_vars

(***************************************************************************)
(* Vocabulary of the properties                                            *)
(***************************************************************************)
ForecastKeys == {"temperature", "irradiance", "wind_speed"}

ForecastKey(s) ==
    CASE s = "temperature" -> "temperature"
      [] s = "irradiance" -> "irradiance"
      [] s = "wind speed" -> "wind_speed"

ConditionKeys == {"warm", "sunny", "windy"}

\* get_forecasts has been evaluated for the request at hand
Evaluated == op \in {"get_forecasts", "get_forecasts_endpoint"} /\ core_calls = 1

TomorrowEvaluated == op \in {"evaluate_tomorrow", "get_tomorrow"}

\* rows of sensor s with event_start <= then
UpToThen(s) ==
    {i \in DOMAIN weather_df :
        /\ weather_df[i].sensor = s
        /\ weather_df[i].event_start # NaT
        /\ weather_df[i].event_start <= then}

KnowledgeTime(r) == r.event_start - r.belief_horizon_in_sec

\* rows of sensor s with event_start <= then and knowledge time <= now
Candidates(s) == {i \in UpToThen(s) : KnowledgeTime(weather_df[i]) <= now}

\* the rows of C with the latest event_start and, among these, the smallest horizon
Best(C) ==
    {i \in C : \A j \in C :
        \/ weather_df[j].event_start < weather_df[i].event_start
        \/ /\ weather_df[j].event_start = weather_df[i].event_start
           /\ weather_df[i].belief_horizon_in_sec <= weather_df[j].belief_horizon_in_sec}

WellFormedForecast == Len(result) = 1 /\ DOMAIN result[1] = ForecastKeys

Reported(s) == result[1][ForecastKey(s)]

SelectedFrom(C, s) ==
    IF C = {} THEN Reported(s) = -100
    ELSE \E i \in Best(C) : Reported(s) = weather_df[i].event_value

\* rows of sensor s whose event_start falls on the date of now + 24h
TomorrowRows(s) ==
    {i \in DOMAIN weather_df :
        /\ weather_df[i].sensor = s
        /\ weather_df[i].event_start # NaT
        /\ weather_df[i].event_start \div SecondsPerDay
             = (now + SecondsPerDay) \div SecondsPerDay}

TomorrowValues(s) == {weather_df[i].event_value : i \in TomorrowRows(s)}

AllSentinel(forecasts) == \A k \in DOMAIN forecasts : forecasts[k] = -100

(***************************************************************************)
(* C1: for each of the three sensors, the value get_forecasts reports is   *)
(* the event_value of a candidate (event_start <= then, knowledge time <=  *)
(* now) with the latest event_start and, among the candidates with that    *)
(* event_start, the smallest belief_horizon_in_sec.                        *)
(***************************************************************************)
C1_LatestThenFreshest ==
    Evaluated =>
        /\ WellFormedForecast
        /\ \A s \in sensors :
              Candidates(s) # {} =>
                 \E i \in Best(Candidates(s)) : Reported(s) = weather_df[i].event_value

\* two candidates of one sensor share the latest event_start; the one with the
\* larger horizon comes first in the data and the other one is reported
C1_Witness ==
    /\ op = "get_forecasts"
    /\ \E s \in sensors : \E i, j \in Candidates(s) :
          /\ j < i
          /\ weather_df[i].event_start = weather_df[j].event_start
          /\ weather_df[i].belief_horizon_in_sec < weather_df[j].belief_horizon_in_sec
          /\ weather_df[i].event_value # weather_df[j].event_value
          /\ i \in Best(Candidates(s))
          /\ Reported(s) = weather_df[i].event_value

(***************************************************************************)
(* C2: a record whose knowledge time is after now never influences         *)
(* get_forecasts: the result is the result on the dataset without the      *)
(* records whose knowledge time is after now.                              *)
(***************************************************************************)
KnownByNow(r) == ~(r.event_start # NaT /\ KnowledgeTime(r) > now)

C2_MonotonicVisibility ==
    Evaluated => result = get_forecasts(SelectSeq(weather_df, KnownByNow), now, then)

\* a record not yet known at now would win on event_start, and an older,
\* known record of the same sensor is reported
C2_Witness ==
    /\ op = "get_forecasts"
    /\ \E s \in sensors : \E i \in UpToThen(s), j \in Candidates(s) :
          /\ KnowledgeTime(weather_df[i]) > now
          /\ weather_df[j].event_start < weather_df[i].event_start
          /\ weather_df[j].event_value # weather_df[i].event_value
          /\ Reported(s) = weather_df[j].event_value

(***************************************************************************)
(* C3: get_forecasts returns a one-element sequence whose map has exactly  *)
(* the keys temperature, irradiance, wind_speed; a sensor without a        *)
(* candidate has the value -1.0, and each sensor's value is the one        *)
(* get_forecasts gives on the rows of that sensor alone.                   *)
(***************************************************************************)
OnlySensor(s) == LET IsS(r) == r.sensor = s IN SelectSeq(weather_df, IsS)

C3_ThreeKeysAndSentinel ==
    Evaluated =>
        /\ WellFormedForecast
        /\ \A s \in sensors :
              /\ Candidates(s) = {} => Reported(s) = -100
              /\ Reported(s) = get_forecasts(OnlySensor(s), now, then)[1][ForecastKey(s)]

\* a row with an unrecognized label, a sensor without candidate and a sensor
\* with a reported value, in one result
C3_Witness ==
    /\ Evaluated
    /\ \E i \in DOMAIN weather_df :
          /\ weather_df[i].sensor \notin sensors
          /\ weather_df[i].event_start # NaT
          /\ weather_df[i].event_start <= then
          /\ KnowledgeTime(weather_df[i]) <= now
    /\ \E s, u \in sensors :
          /\ Candidates(s) = {}
          /\ Reported(s) = -100
          /\ Candidates(u) # {}
          /\ Reported(u) # -100

(***************************************************************************)
(* C4: evaluate_tomorrow returns a map with exactly the keys warm, sunny,  *)
(* windy; each flag is True iff at least one record of its sensor dated    *)
(* tomorrow (the date of now + 24h) has event_value >= its threshold.      *)
(***************************************************************************)
C4_AnyRecordAtLeastThreshold ==
    TomorrowEvaluated =>
        /\ DOMAIN result = ConditionKeys
        /\ result.warm =
              (\E v \in TomorrowValues("temperature") : v >= WARM_THRESHOLD)
        /\ result.sunny =
              (\E v \in TomorrowValues("irradiance") : v >= SUNNY_THRESHOLD)
        /\ result.windy =
              (\E v \in TomorrowValues("wind speed") : v >= WINDY_THRESHOLD)

\* every irradiance record of tomorrow is below the threshold, a temperature
\* record of tomorrow is not: sunny is False, warm is True
C4_Witness ==
    /\ TomorrowEvaluated
    /\ TomorrowRows("irradiance") # {}
    /\ \A v \in TomorrowValues("irradiance") : v < SUNNY_THRESHOLD
    /\ \E v \in TomorrowValues("temperature") : v >= WARM_THRESHOLD
    /\ result.sunny = FALSE
    /\ result.warm = TRUE

(***************************************************************************)
(* C5: thresholds 8.0 / 50.0 / 6.0, now = 2020-11-02T18:00Z, tomorrow has  *)
(* irradiance 4.55 and 85.02, wind speed 6.94 and no temperature.          *)
(***************************************************************************)
C5_Scenario ==
    /\ TomorrowEvaluated
    /\ now = tomorrow_now
    /\ WARM_THRESHOLD = 800 /\ SUNNY_THRESHOLD = 5000 /\ WINDY_THRESHOLD = 600
    /\ TomorrowValues("irradiance") = {455, 8502}
    /\ TomorrowValues("wind speed") = {694}
    /\ TomorrowValues("temperature") = {}

\* C5 as stated: the scenario yields {warm: False, sunny: False, windy: True}
C5_Original ==
    C5_Scenario => result = [warm |-> FALSE, sunny |-> FALSE, windy |-> TRUE]

\* C5 as amended: the scenario yields {warm: False, sunny: True, windy: True}
C5_Amended ==
    C5_Scenario => result = [warm |-> FALSE, sunny |-> TRUE, windy |-> TRUE]

C5_Witness == C5_Scenario /\ result.sunny = TRUE /\ result.windy = TRUE

(***************************************************************************)
(* C6: when the result of get_forecasts is entirely sentinel values, the   *)
(* /forecasts handler answers 404 instead of returning the result.         *)
(***************************************************************************)
C6_AllSentinelIsNotFound ==
    ( /\ op = "get_forecasts_endpoint"
      /\ core_calls = 1
      /\ AllSentinel(get_forecasts(weather_df, now, then)[1]) )
    => status = 404

(***************************************************************************)
(* C7: a /forecasts request with now < then is answered 400 and the core   *)
(* is not evaluated; a request with now >= then is not rejected by the     *)
(* validation and the core is evaluated exactly once.                      *)
(***************************************************************************)
C7_ValidationGuardsCore ==
    op = "get_forecasts_endpoint" =>
        IF now < then
        THEN status = 400 /\ core_calls = 0 /\ result = NoResult
        ELSE status # 400 /\ core_calls = 1

\* a rejected request over a dataset that has a record for the window
C7_Witness ==
    /\ op = "get_forecasts_endpoint"
    /\ now < then
    /\ status = 400
    /\ \E s \in sensors : Candidates(s) # {}

(***************************************************************************)
(* C8: evaluate_tomorrow applies no visibility filter: its result does not *)
(* depend on any record's belief_horizon_in_sec, and a record of tomorrow  *)
(* at or above its threshold sets its flag even when its knowledge time is *)
(* after now.                                                              *)
(***************************************************************************)
WithHorizons(df, hs) ==
    [i \in DOMAIN df |-> [df[i] EXCEPT !.belief_horizon_in_sec = hs[i]]]

UsedHorizons == Horizons \cup {weather_df[i].belief_horizon_in_sec : i \in DOMAIN weather_df}

C8_NoVisibilityFilterTomorrow ==
    TomorrowEvaluated =>
        /\ \A hs \in [DOMAIN weather_df -> UsedHorizons] :
              result = evaluate_tomorrow(WithHorizons(weather_df, hs), now)
        /\ \A i \in TomorrowRows("temperature") :
              weather_df[i].event_value >= WARM_THRESHOLD => result.warm
        /\ \A i \in TomorrowRows("irradiance") :
              weather_df[i].event_value >= SUNNY_THRESHOLD => result.sunny
        /\ \A i \in TomorrowRows("wind speed") :
              weather_df[i].event_value >= WINDY_THRESHOLD => result.windy

\* the only temperature record of tomorrow is not yet known at now and makes
\* warm True
C8_Witness ==
    /\ TomorrowEvaluated
    /\ \E i \in DOMAIN weather_df :
          /\ TomorrowRows("temperature") = {i}
          /\ KnowledgeTime(weather_df[i]) > now
          /\ weather_df[i].event_value >= WARM_THRESHOLD
    /\ result.warm = TRUE

(***************************************************************************)
(* C9: a record whose event_start is NaT never influences get_forecasts or *)
(* evaluate_tomorrow, and both still return a well-formed result: each     *)
(* result is the result on the dataset without the NaT records.            *)
(***************************************************************************)
HasEventStart(r) == r.event_start # NaT

NonNegativeHorizons ==
    \A i \in DOMAIN weather_df : weather_df[i].belief_horizon_in_sec >= 0

C10_ValidatedRequestSeesAll ==
    (op = "get_forecasts_endpoint" /\ core_calls = 1 /\ NonNegativeHorizons) =>
        /\ WellFormedForecast
        /\ \A s \in sensors :
              /\ Candidates(s) = UpToThen(s)
              /\ SelectedFrom(UpToThen(s), s)

\* now = then = event_start and horizon 0: the knowledge time is exactly now,
\* and the record is reported
C10_Witness ==
    /\ op = "get_forecasts_endpoint"
    /\ status = 200
    /\ now = then
    /\ \E s \in sensors : \E i \in UpToThen(s) :
          /\ weather_df[i].event_start = then
          /\ weather_df[i].belief_horizon_in_sec = 0
          /\ Reported(s) = weather_df[i].event_value

====
